---------------------------- MODULE Spec2Model ----------------------------
(***************************************************************************)
(* Sound-Math: the chord detection pipeline (ChordDetector) and the code   *)
(* around it.                                                              *)
(*                                                                         *)
(* Numbers.  A JavaScript number that is a frequency is carried as an      *)
(* integer count of 10^-4 Hz (FreqUnit per Hz); the one non-finite value   *)
(* the pipeline can produce, NaN, is the value NaN below.  Every           *)
(* comparison with NaN is false, as in IEEE 754.  Irrational constants     *)
(* (2^(1/12), exp) enter through tables of floors, stated where used.      *)
(***************************************************************************)
EXTENDS Integers, Sequences, FiniteSets, TLC

VARIABLES
    noteCall,       \* the last findClosestNote call: <<>> before any, then
                    \* <<[frequency, note]>>
    notes,          \* the ChordNote[] a caller assembles for identifyChord
    identified,     \* <<>>, then <<what identifyChord returned for notes>>
    frequencyData,  \* the Uint8Array spectrum of the current frame
    sounding,       \* how many partials sound in the current frame
    sampleRate,     \* detectChord's sampleRate argument
    fftSize,        \* detectChord's fftSize argument
    maxPeaks,       \* findFrequencyPeaks's peakCount argument
    peaks,          \* <<>>, then <<what findFrequencyPeaks returned>>
    chord,          \* <<>>, then <<what detectChord returned>>
    spectrum,       \* AudioProcessor.frequencyData
    contextRate,    \* audioContext.sampleRate, 0 while audioContext is null
    dominant,       \* <<>>, then <<what detectDominantFrequency returned>>
    stream,         \* AudioProcessor.stream: 0 (null) or a MediaStream
    source,         \* AudioProcessor.source: 0 (null) or the stream it reads
    analyser,       \* AudioProcessor.analyser: is there an AnalyserNode
    isInitialized,  \* AudioProcessor.isInitialized
    isProcessing,   \* AudioProcessor.isProcessing
    updateCallbacks,\* AudioProcessor.updateCallbacks, callbacks by number
    calls,          \* the initialize() calls so far, in call order, each
                    \* with the await it stands at or the value it resolved
                    \* to, and whether stop() was called after it resolved
    liveStreams,    \* the MediaStreams handed out whose tracks run
    frames,         \* the pending requestAnimationFrame callbacks
    subscribed,     \* how many callbacks subscribe() has been given
    unsubscribed,   \* the callbacks whose unsubscribe function was called
    round,          \* the callbacks the last notifyListeners invoked, each
                    \* with whether it had been unsubscribed by then
    startedSince,   \* start() was called after the last initialize()
                    \* resolved true, with no stop() between the two and
                    \* neither stop() nor initialize() since
    now,            \* performance.now(), in ms
    detectedChord,  \* AudioProvider's detectedChord, by its name
    chordHistory,   \* AudioProvider's chordHistory
    lastDetectedChord,  \* AudioProvider's lastDetectedChord
    lastChordTime   \* AudioProvider's lastChordTime

noteVars == <<noteCall>>
identifyVars == <<notes, identified>>
detectVars ==
    <<frequencyData, sounding, sampleRate, fftSize, maxPeaks, peaks, chord>>
dominantVars == <<spectrum, contextRate, dominant>>
\* The state of AudioProcessor and of AudioProvider, which no call of the
\* chord detection pipeline touches.
processorVars ==
    <<stream, source, analyser, isInitialized, isProcessing, updateCallbacks,
      calls, liveStreams, frames, subscribed, unsubscribed, round,
      startedSince>>
historyVars ==
    <<now, detectedChord, chordHistory, lastDetectedChord, lastChordTime>>
appVars == <<dominantVars, processorVars, historyVars>>
vars == <<noteCall, notes, identified,
          frequencyData, sounding, sampleRate, fftSize, maxPeaks, peaks,
          chord, appVars>>

\* The JavaScript value undefined (an out-of-range array read).
Undefined == "undefined"

\* Frequencies are integers in units of 10^-4 Hz.
FreqUnit == 100 * 100

\* The IEEE 754 NaN that 0/0 produces: an integer set aside for it, far
\* below every frequency the model holds.
NaN == 0 - (2 ^ 30)

IsNaN(x) == x = NaN

Abs(x) == IF x < 0 THEN 0 - x ELSE x

Max(a, b) == IF a > b THEN a ELSE b

Min(a, b) == IF a < b THEN a ELSE b

RECURSIVE Pow2(_)
Pow2(k) == IF k <= 0 THEN 1 ELSE 2 * Pow2(k - 1)

RECURSIVE SumSeq(_)
SumSeq(s) == IF s = <<>> THEN 0 ELSE Head(s) + SumSeq(Tail(s))

SeqRange(s) == {s[i] : i \in 1..Len(s)}

(***************************************************************************)
(* Note Mapper: findClosestNote.                                           *)
(***************************************************************************)

\* floor(10^4 * 440 * 2^((s - 57) / 12)) for s = 132..143 (C11..B11): the
\* equal-tempered frequencies a4 * halfStepRatio^n of the top octave the
\* integers hold; a lower octave is a division by a power of two.
NoteFrequencyTop ==
    <<334880723, 354793767, 375890902, 398242539, 421923272, 447012136,
      473592861, 501754158, 531590012, 563200000, 596689614, 632170625>>

\* floor(10^4 * 440 * 2^((s - 57.5) / 12)) for s = 132..143: the frequency
\* at and above which Math.round(12 * log2(f / 440)) is s - 57.
HalfStepEdgeTop ==
    <<325347319, 344693477, 365190018, 386905347, 409911936, 434286568,
      460110591, 487470191, 516456677, 547166789, 579703019, 614173955>>

\* a4 * Math.pow(halfStepRatio, n), floored to the unit.
EqualTempered(n) ==
    LET s == n + 57
    IN  NoteFrequencyTop[(s % 12) + 1] \div Pow2(11 - (s \div 12))

\* floor of the irrational edge 440 * 2^((n - 0.5) / 12).
HalfStepEdge(n) ==
    LET s == n + 57
    IN  HalfStepEdgeTop[(s % 12) + 1] \div Pow2(11 - (s \div 12))

\* The octaves (from C) the model's frequencies fall in: 10^-4 Hz lies in
\* octave -18, and octave 11 ends above 60 kHz.
Octaves == (0 - 18)..11

\* Math.round(12 * Math.log2(frequency / a4)) for a finite frequency > 0:
\* rounding to n is lying in [edge(n), edge(n + 1)), and an integer is at
\* or above an irrational edge iff it exceeds the edge's floor.  The octave
\* is found first, then the half step within it.
RoundedHalfSteps(frequency) ==
    LET o == CHOOSE k \in Octaves :
                /\ HalfStepEdge((12 * k) - 57) < frequency
                /\ frequency <= HalfStepEdge((12 * (k + 1)) - 57)
    IN  CHOOSE n \in ((12 * o) - 57)..((12 * o) - 46) :
            HalfStepEdge(n) < frequency /\ frequency <= HalfStepEdge(n + 1)

noteNames ==
    <<"A", "A#/Bb", "B", "C", "C#/Db", "D", "D#/Eb", "E", "F", "F#/Gb",
      "G", "G#/Ab">>

\* ((roundedHalfSteps + 57) % 12 + 12) % 12; JavaScript's % takes the sign
\* of the dividend, and the second % brings the index back to 0..11, which
\* is what the floored modulus gives at once.
NoteIndex(roundedHalfSteps) ==
    (roundedHalfSteps + 57) % 12

FindClosestNote(frequency) ==
    IF IsNaN(frequency)
    THEN \* NaN <= 0 is false; every number derived from NaN is NaN, and
         \* noteNames[NaN] is undefined
         [name |-> Undefined, octave |-> NaN, frequency |-> NaN]
    ELSE IF frequency <= 0
    THEN [name |-> "Unknown", octave |-> 0, frequency |-> 0]
    ELSE LET roundedHalfSteps == RoundedHalfSteps(frequency)
         IN  [name |-> noteNames[NoteIndex(roundedHalfSteps) + 1],
              octave |-> (roundedHalfSteps + 57) \div 12,
              frequency |-> EqualTempered(roundedHalfSteps)]


(***************************************************************************)
(* Chord Matcher: identifyChord and calculateChordNotes.                   *)
(***************************************************************************)

\* CHORD_FORMULAS as the object literal declares it, key after key.
CHORD_FORMULAS ==
    << [suffix |-> "",     formula |-> <<"1", "3", "5">>],
       [suffix |-> "m",    formula |-> <<"1", "b3", "5">>],
       [suffix |-> "7",    formula |-> <<"1", "3", "5", "b7">>],
       [suffix |-> "maj7", formula |-> <<"1", "3", "5", "7">>],
       [suffix |-> "m7",   formula |-> <<"1", "b3", "5", "b7">>],
       [suffix |-> "dim",  formula |-> <<"1", "b3", "b5">>],
       [suffix |-> "aug",  formula |-> <<"1", "3", "#5">>],
       [suffix |-> "sus4", formula |-> <<"1", "4", "5">>],
       [suffix |-> "sus2", formula |-> <<"1", "2", "5">>],
       [suffix |-> "6",    formula |-> <<"1", "3", "5", "6">>],
       [suffix |-> "m6",   formula |-> <<"1", "b3", "5", "6">>] >>

\* The keys that are array indices (canonical numeric strings): of the
\* keys in use only one-digit ones can be.
Digits == <<"0", "1", "2", "3", "4", "5", "6", "7", "8", "9">>

IsArrayIndex(key) == \E d \in 1..Len(Digits) : Digits[d] = key

ArrayIndexValue(key) == (CHOOSE d \in 1..Len(Digits) : Digits[d] = key) - 1

RECURSIVE SelectEntries(_, _)
SelectEntries(entries, wantIndex) ==
    IF entries = <<>> THEN <<>>
    ELSE IF IsArrayIndex(Head(entries).suffix) = wantIndex
         THEN <<Head(entries)>> \o SelectEntries(Tail(entries), wantIndex)
         ELSE SelectEntries(Tail(entries), wantIndex)

RECURSIVE AscendingIndexKeys(_)
AscendingIndexKeys(entries) ==
    IF entries = <<>> THEN <<>>
    ELSE LET least == CHOOSE i \in 1..Len(entries) :
                        \A j \in 1..Len(entries) :
                            ArrayIndexValue(entries[i].suffix)
                                <= ArrayIndexValue(entries[j].suffix)
             rest == [k \in 1..(Len(entries) - 1) |->
                        IF k < least THEN entries[k] ELSE entries[k + 1]]
         IN  <<entries[least]>> \o AscendingIndexKeys(rest)

\* Object.entries(table): an object's own keys are enumerated array-index
\* keys first, in ascending numeric order, then the other string keys in
\* the order they were created (ECMAScript OrdinaryOwnPropertyKeys).
ObjectEntries(table) ==
    AscendingIndexKeys(SelectEntries(table, TRUE))
        \o SelectEntries(table, FALSE)

\* A split that leaves every name whole.
SplitSlashWhole(name) == <<name>>

\* name.split('/') for the names findClosestNote produces; a string with
\* no '/' splits to itself.
SplitSlash(name) ==
    CASE name = "A#/Bb" -> <<"A#", "Bb">>
      [] name = "C#/Db" -> <<"C#", "Db">>
      [] name = "D#/Eb" -> <<"D#", "Eb">>
      [] name = "F#/Gb" -> <<"F#", "Gb">>
      [] name = "G#/Ab" -> <<"G#", "Ab">>
      [] OTHER -> <<name>>

\* Boolean(name): the empty string and undefined are falsy.
Truthy(name) == name # "" /\ name # Undefined

\* The noteNames of calculateChordNotes: sharps only, from C.
chordNoteNames ==
    <<"C", "C#", "D", "D#", "E", "F", "F#", "G", "G#", "A", "A#", "B">>

intervalToSemitones(interval) ==
    CASE interval = "1" -> 0
      [] interval = "b2" -> 1
      [] interval = "2" -> 2
      [] interval = "b3" -> 3
      [] interval = "3" -> 4
      [] interval = "4" -> 5
      [] interval = "b5" -> 6
      [] interval = "5" -> 7
      [] interval = "#5" -> 8
      [] interval = "6" -> 9
      [] interval = "b7" -> 10
      [] interval = "7" -> 11

CalculateChordNotes(rootNote, formula) ==
    IF ~Truthy(rootNote) THEN <<>>
    ELSE LET root == Head(SplitSlash(rootNote))
         IN  IF \A k \in 1..12 : chordNoteNames[k] # root
             THEN <<>>
             ELSE LET rootIndex ==
                        (CHOOSE k \in 1..12 : chordNoteNames[k] = root) - 1
                  IN  [i \in 1..Len(formula) |->
                         chordNoteNames[
                            ((rootIndex + intervalToSemitones(formula[i]))
                                % 12) + 1]]
\* A weight w = 1.0 / Math.max(frequency, 80) (in 1/Hz) is carried as
\* floor(w * WeightScale); a score s as 2 * s * WeightScale, which clears
\* the factor 0.5 of the unmatched-note penalty.
WeightScale == 2 * (10 ^ 7)

\* floor(10^11 * 2 / f) by long division, within 32-bit integers for the
\* frequencies f below 20 kHz.
WeightOf(frequency) ==
    IF IsNaN(frequency) THEN NaN
    ELSE LET f == Max(frequency, 80 * FreqUnit)
             k == 2 * (10 ^ 9)
             q1 == k \div f
             r1 == k % f
             q2 == (q1 * 10) + ((r1 * 10) \div f)
             r2 == (r1 * 10) % f
         IN  (q2 * 10) + ((r2 * 10) \div f)

NoteInfoOf(noteSeq) ==
    [i \in 1..Len(noteSeq) |->
        [name |-> noteSeq[i].name,
         frequency |-> noteSeq[i].frequency,
         weight |-> WeightOf(noteSeq[i].frequency)]]

\* A sort that puts a note before the notes of its own weight.
RECURSIVE InsertByWeightTiesFirst(_, _)
InsertByWeightTiesFirst(sorted, x) ==
    IF sorted = <<>> THEN <<x>>
    ELSE IF x.weight >= Head(sorted).weight
         THEN <<x>> \o sorted
         ELSE <<Head(sorted)>> \o InsertByWeightTiesFirst(Tail(sorted), x)

\* One step of the stable sort: x goes behind every element whose weight
\* is at least its own.
RECURSIVE InsertByWeight(_, _)
InsertByWeight(sorted, x) ==
    IF sorted = <<>> THEN <<x>>
    ELSE IF x.weight > Head(sorted).weight
         THEN <<x>> \o sorted
         ELSE <<Head(sorted)>> \o InsertByWeight(Tail(sorted), x)

RECURSIVE SortFrom(_, _)
SortFrom(sorted, rest) ==
    IF rest = <<>> THEN sorted
    ELSE SortFrom(InsertByWeight(sorted, Head(rest)), Tail(rest))

\* noteInfo.sort((a, b) => b.weight - a.weight): Array.prototype.sort is
\* stable.  With a NaN weight the comparator is inconsistent and the order
\* is implementation-defined; every score is then NaN (each note adds its
\* weight to each score) and no later step reads the order, so the array
\* is left as it was.
SortByWeight(noteInfo) ==
    IF \E i \in 1..Len(noteInfo) : IsNaN(noteInfo[i].weight)
    THEN noteInfo
    ELSE SortFrom(<<>>, noteInfo)

\* Array.from(new Set(names)): the first occurrence of each, in order.
RECURSIVE UniqueInOrder(_, _)
UniqueInOrder(seen, names) ==
    IF names = <<>> THEN seen
    ELSE IF Head(names) \in SeqRange(seen)
         THEN UniqueInOrder(seen, Tail(names))
         ELSE UniqueInOrder(Append(seen, Head(names)), Tail(names))

\* potentialRoots.flat().filter(Boolean)
RECURSIVE FilterTruthy(_)
FilterTruthy(names) ==
    IF names = <<>> THEN <<>>
    ELSE IF Truthy(Head(names))
         THEN <<Head(names)>> \o FilterTruthy(Tail(names))
         ELSE FilterTruthy(Tail(names))

\* rootsToTry: the names of the first three notes of the sorted array and
\* then of the rest, which is the names of the sorted array.
RootsToTry(baseNotes) ==
    UniqueInOrder(<<>>, FilterTruthy(SubSeq(baseNotes, 1, Min(3, Len(baseNotes)))
                                        \o SubSeq(baseNotes, 4, Len(baseNotes))))

\* note || '' and its variants.
NoteVariants(note) ==
    IF Truthy(note) THEN SplitSlash(note) ELSE <<"">>

essentialIntervals == {"1", "3", "b3", "5"}

\* Object.entries(CHORD_FORMULAS)
chordEntries == ObjectEntries(CHORD_FORMULAS)

\* formula.join('-')
RECURSIVE JoinDash(_)
JoinDash(formula) ==
    IF formula = <<>> THEN ""
    ELSE IF Len(formula) = 1 THEN Head(formula)
         ELSE Head(formula) \o "-" \o JoinDash(Tail(formula))

NoteMatched(note, expectedNotes) ==
    \E v \in SeqRange(NoteVariants(note)) : v \in SeqRange(expectedNotes)

\* A count that finds no essential interval missing.
MissingEssentialNone(root, formula, baseNotes) == 0

\* The score of one (root, formula) against the sorted notes, NaN when a
\* weight is NaN, and the count of matched notes.
MissingEssential(root, formula, baseNotes) ==
    Cardinality({i \in 1..Len(formula) :
        /\ formula[i] \in essentialIntervals
        /\ LET forInterval == CalculateChordNotes(root, <<formula[i]>>)
           IN  ~ /\ forInterval # <<>>
                 /\ \E k \in 1..Len(baseNotes) :
                        forInterval[1] \in SeqRange(NoteVariants(baseNotes[k]))})

MatchedNotes(root, formula, noteInfo) ==
    LET expectedNotes == CalculateChordNotes(root, formula)
    IN  Cardinality({i \in 1..Len(noteInfo) :
                        NoteMatched(noteInfo[i].name, expectedNotes)})

ScoreOf(root, formula, noteInfo) ==
    LET expectedNotes == CalculateChordNotes(root, formula)
        baseNotes == [i \in 1..Len(noteInfo) |-> noteInfo[i].name]
        terms == [i \in 1..Len(noteInfo) |->
                    IF NoteMatched(noteInfo[i].name, expectedNotes)
                    THEN 4 * noteInfo[i].weight
                    ELSE 0 - noteInfo[i].weight]
    IN  IF \E i \in 1..Len(noteInfo) : IsNaN(noteInfo[i].weight)
        THEN NaN
        ELSE SumSeq(terms)
                - (MissingEssential(root, formula, baseNotes) * 4 * WeightScale)

\* A tie replacing the best match: score >= bestMatchScore.
ScoreBeatsOrTies(score, bestMatchScore) ==
    ~IsNaN(score) /\ score >= bestMatchScore

\* score > bestMatchScore
ScoreBeats(score, bestMatchScore) ==
    ~IsNaN(score) /\ score > bestMatchScore

\* The body of the innermost loop: one (root, suffix, formula) against the
\* best match so far.
TryFormula(best, root, entry, noteInfo) ==
    LET score == ScoreOf(root, entry.formula, noteInfo)
        minRequiredMatches == Min(2, Len(entry.formula))
    IN  IF /\ MatchedNotes(root, entry.formula, noteInfo) >= minRequiredMatches
           /\ ScoreBeats(score, best.score)
        THEN [score |-> score, name |-> root \o entry.suffix,
              formula |-> JoinDash(entry.formula)]
        ELSE best

\* The three loops below carry the best match along.  Each compares the
\* new best match with the old one before going on, which changes nothing
\* and makes TLC evaluate it there, not as one nested expression at the end.

\* for (const [suffix, formula] of Object.entries(CHORD_FORMULAS))
RECURSIVE ForEachEntry(_, _, _, _)
ForEachEntry(best, root, entries, noteInfo) ==
    IF entries = <<>> THEN best
    ELSE LET next == TryFormula(best, root, Head(entries), noteInfo)
         IN  IF next = best
             THEN ForEachEntry(best, root, Tail(entries), noteInfo)
             ELSE ForEachEntry(next, root, Tail(entries), noteInfo)

\* for (const root of rootVariants)
RECURSIVE ForEachVariant(_, _, _)
ForEachVariant(best, rootVariants, noteInfo) ==
    IF rootVariants = <<>> THEN best
    ELSE LET next == ForEachEntry(best, Head(rootVariants), chordEntries,
                                  noteInfo)
         IN  IF next = best
             THEN ForEachVariant(best, Tail(rootVariants), noteInfo)
             ELSE ForEachVariant(next, Tail(rootVariants), noteInfo)

\* for (const rootNote of rootsToTry)
RECURSIVE ForEachRoot(_, _, _)
ForEachRoot(best, rootsToTry, noteInfo) ==
    IF rootsToTry = <<>> THEN best
    ELSE LET next == ForEachVariant(best, SplitSlash(Head(rootsToTry)),
                                    noteInfo)
         IN  IF next = best
             THEN ForEachRoot(best, Tail(rootsToTry), noteInfo)
             ELSE ForEachRoot(next, Tail(rootsToTry), noteInfo)

\* identifyChord.  threw: the call ended in a TypeError instead of a value
\* (notes[0].name.split on a note whose name is undefined).
IdentifyChord(noteSeq) ==
    IF Len(noteSeq) = 0 THEN [name |-> "", formula |-> "", threw |-> FALSE]
    ELSE IF Len(noteSeq) = 1
    THEN IF noteSeq[1].name = Undefined
         THEN [name |-> "", formula |-> "", threw |-> TRUE]
         ELSE [name |-> Head(SplitSlash(noteSeq[1].name)), formula |-> "1",
               threw |-> FALSE]
    ELSE LET noteInfo == SortByWeight(NoteInfoOf(noteSeq))
             baseNotes == [i \in 1..Len(noteInfo) |-> noteInfo[i].name]
             \* bestMatchScore = -1, bestMatchName = "", bestMatchFormula = ""
             best == ForEachRoot([score |-> 0 - (2 * WeightScale),
                                  name |-> "", formula |-> ""],
                                 RootsToTry(baseNotes), noteInfo)
             \* notes[0]?.name || ''
             noteName == IF Truthy(noteSeq[1].name) THEN noteSeq[1].name
                         ELSE ""
         IN  IF best.score > 0
             THEN [name |-> best.name, formula |-> best.formula,
                   threw |-> FALSE]
             ELSE [name |-> Head(SplitSlash(noteName)), formula |-> "1",
                   threw |-> FALSE]

(***************************************************************************)
(* Peak Finder: findFrequencyPeaks.                                        *)
(***************************************************************************)

\* frequencyData[j] for a JavaScript index j: an index outside the array
\* reads undefined, which compares and computes as NaN.
Read(data, j) ==
    IF j >= 0 /\ j < Len(data) THEN data[j + 1] ELSE NaN

\* a > b on JavaScript numbers: false when either is NaN.
Gt(a, b) == (~IsNaN(a)) /\ (~IsNaN(b)) /\ a > b

\* const threshold = 10 of isDataMostlySilent.
silenceThreshold == 10

\* A detector with no silence check.
IsDataNeverSilent(data) == FALSE

\* sum / length < threshold; for an empty array the average is 0/0 = NaN
\* and the comparison is false.
IsDataMostlySilent(data) ==
    Len(data) > 0 /\ SumSeq(data) < silenceThreshold * Len(data)

windowSize == 3

peakCount == 6

lowestHz == 80

highestHz == 1200

\* binSize = sampleRate / fftSize is a positive finite number.  Otherwise
\* it is 0, negative, infinite or NaN, and then minBin is infinite or NaN,
\* or maxBin is at most 0 and at most minBin: the first pass has no
\* iteration.
HasBins(rate, size) == (rate > 0 /\ size > 0) \/ (rate < 0 /\ size < 0)

\* binSize in units of 10^-4 Hz, floored.
BinSize(rate, size) == (Abs(rate) * FreqUnit) \div Abs(size)

\* Math.floor(80 / binSize) and Math.floor(1200 / binSize)
MinBin(rate, size) == (lowestHz * Abs(size)) \div Abs(rate)

MaxBin(rate, size) == (highestHz * Abs(size)) \div Abs(rate)

\* smoothedData: a Uint8Array of zeros, then the floored mean of the seven
\* bins around i for each i from windowSize to length - windowSize - 1.
SmoothedData(data) ==
    [k \in 1..Len(data) |->
        IF (k - 1) >= windowSize /\ (k - 1) < Len(data) - windowSize
        THEN SumSeq(SubSeq(data, k - windowSize, k + windowSize))
                \div ((windowSize * 2) + 1)
        ELSE 0]

\* floor(10^6 * ln(30 / m)) for m = 1..30: 30 * exp(-x) >= m exactly when
\* x <= ln(30 / m).
LnThirtyOver ==
    <<3401197, 2708050, 2302585, 2014903, 1791759, 1609437, 1455287,
      1321755, 1203972, 1098612, 1003302, 916290, 836248, 762140, 693147,
      628608, 567984, 510825, 456758, 405465, 356674, 310154, 265703,
      223143, 182321, 143100, 105360, 68992, 33901, 0>>

\* The floor of getThreshold(bin) = 15 + 30 * exp(-bin / (minBin * 2)); an
\* integer exceeds the threshold exactly when it exceeds this floor.  With
\* minBin = 0 the exponent is -Infinity for bin > 0, and 0/0 for bin = 0.
GetThreshold(bin, minBin) ==
    IF minBin = 0
    THEN IF bin = 0 THEN NaN ELSE 15
    ELSE 15 + Cardinality({m \in 1..30 :
                    bin * (10 ^ 6) <= 2 * minBin * LnThirtyOver[m]})

\* The condition of the first pass at bin i.
IsCandidate(smoothedData, i, minBin) ==
    /\ Gt(Read(smoothedData, i), GetThreshold(i, minBin))
    /\ Gt(Read(smoothedData, i), Read(smoothedData, i - 1))
    /\ Gt(Read(smoothedData, i), Read(smoothedData, i + 1))

\* One step of the search for the actual peak around i.
PeakStep(data, acc, j) ==
    IF Gt(Read(data, j), acc.peakValue)
    THEN [peakBin |-> j, peakValue |-> Read(data, j)]
    ELSE acc

\* peakBin and peakValue: from bin i with the smoothed value, over the raw
\* values of j = i-1, i, i+1 in this order.
ActualPeak(data, smoothedData, i) ==
    PeakStep(data,
        PeakStep(data,
            PeakStep(data, [peakBin |-> i, peakValue |-> smoothedData[i + 1]],
                     i - 1),
            i),
        i + 1)

\* peakOffset * binSize, peakOffset = 0.5 * (alpha - gamma) / (alpha -
\* 2 * beta + gamma) limited to [-0.5, 0.5]: 0/0 is NaN and stays NaN
\* through Math.min and Math.max, x/0 is an infinity and is limited.
PeakOffset(alpha, beta, gamma, binSize) ==
    IF IsNaN(alpha) \/ IsNaN(beta) \/ IsNaN(gamma) THEN NaN
    ELSE LET num == alpha - gamma
             den == (alpha - (2 * beta)) + gamma
             n == IF den < 0 THEN 0 - num ELSE num
             d == Abs(den)
         IN  IF den = 0
             THEN IF num = 0 THEN NaN
                  ELSE IF num > 0 THEN binSize \div 2
                  ELSE 0 - (binSize \div 2)
             ELSE IF n >= d THEN binSize \div 2
             ELSE IF n <= 0 - d THEN 0 - (binSize \div 2)
             ELSE (binSize * n) \div (2 * d)

\* refinedFrequency = (peakBin + peakOffset) * binSize
RefinedFrequency(data, peakBin, binSize) ==
    LET peakOffset == PeakOffset(Read(data, peakBin - 1), Read(data, peakBin),
                                 Read(data, peakBin + 1), binSize)
    IN  IF IsNaN(peakOffset) THEN NaN
        ELSE (peakBin * binSize) + peakOffset

\* floor(x * 2^(1/12)) for a frequency x, 2^(1/12) = 1.059463...
TimesSemitone(x) ==
    x + ((((x \div 1000) * 59463) + (((x % 1000) * 59463) \div 1000))
            \div 1000)

\* semitoneDistance < 1 for freqRatio = a / b: |12 * log2(a / b)| < 1 is
\* a < b * 2^(1/12) and b < a * 2^(1/12); false when either is NaN.
WithinSemitone(a, b) ==
    /\ ~IsNaN(a)
    /\ ~IsNaN(b)
    /\ a <= TimesSemitone(b)
    /\ b <= TimesSemitone(a)

\* The loop over the peaks found so far, from position k: the first peak
\* within a semitone of the candidate ends it, and takes the candidate's
\* frequency and magnitude if the candidate is stronger; with none the
\* candidate is pushed.
RECURSIVE PlaceCandidate(_, _, _)
PlaceCandidate(found, k, candidate) ==
    IF k > Len(found) THEN Append(found, candidate)
    ELSE IF WithinSemitone(found[k].frequency, candidate.frequency)
         THEN IF candidate.magnitude > found[k].magnitude
              THEN [found EXCEPT ![k] = candidate]
              ELSE found
         ELSE PlaceCandidate(found, k + 1, candidate)

\* The first pass from bin i up to, not including, the bin last.
RECURSIVE FirstPass(_, _, _, _, _, _, _)
FirstPass(found, i, last, data, smoothedData, minBin, binSize) ==
    IF i >= last THEN found
    ELSE LET actual == ActualPeak(data, smoothedData, i)
             next == IF IsCandidate(smoothedData, i, minBin)
                     THEN PlaceCandidate(found, 1,
                            [frequency |-> RefinedFrequency(data,
                                                actual.peakBin, binSize),
                             magnitude |-> actual.peakValue])
                     ELSE found
         IN  IF next = found
             THEN FirstPass(found, i + 1, last, data, smoothedData, minBin,
                            binSize)
             ELSE FirstPass(next, i + 1, last, data, smoothedData, minBin,
                            binSize)

\* A sort that puts a peak before the peaks of its own magnitude.
RECURSIVE InsertByMagnitudeTiesFirst(_, _)
InsertByMagnitudeTiesFirst(sorted, x) ==
    IF sorted = <<>> THEN <<x>>
    ELSE IF x.magnitude >= Head(sorted).magnitude
         THEN <<x>> \o sorted
         ELSE <<Head(sorted)>> \o InsertByMagnitudeTiesFirst(Tail(sorted), x)

\* One step of the stable sort by magnitude, largest first.
RECURSIVE InsertByMagnitude(_, _)
InsertByMagnitude(sorted, x) ==
    IF sorted = <<>> THEN <<x>>
    ELSE IF x.magnitude > Head(sorted).magnitude
         THEN <<x>> \o sorted
         ELSE <<Head(sorted)>> \o InsertByMagnitude(Tail(sorted), x)

\* peaks.sort((a, b) => b.magnitude - a.magnitude); magnitudes are bytes.
RECURSIVE SortByMagnitude(_, _)
SortByMagnitude(sorted, rest) ==
    IF rest = <<>> THEN sorted
    ELSE SortByMagnitude(InsertByMagnitude(sorted, Head(rest)), Tail(rest))

\* Math.abs(ratio - 1) < 0.03 for ratio = frequency / harmonicFreq.
NearHarmonic(frequency, harmonicFreq) ==
    /\ ~IsNaN(frequency)
    /\ ~IsNaN(harmonicFreq)
    /\ Abs(frequency - harmonicFreq) <= ((3 * harmonicFreq) - 1) \div 100

\* A second pass that takes no peak for a harmonic.
IsHarmonicNever(peak, filteredPeaks) == FALSE

IsHarmonic(peak, filteredPeaks) ==
    \E k \in 1..Len(filteredPeaks) :
        \E harmonic \in 2..4 :
            NearHarmonic(peak.frequency,
                IF IsNaN(filteredPeaks[k].frequency) THEN NaN
                ELSE filteredPeaks[k].frequency * harmonic)

\* The second pass over the sorted peaks.
RECURSIVE FilterHarmonics(_, _, _)
FilterHarmonics(filteredPeaks, rest, count) ==
    IF rest = <<>> THEN filteredPeaks
    ELSE IF IsHarmonic(Head(rest), filteredPeaks)
         THEN FilterHarmonics(filteredPeaks, Tail(rest), count)
         ELSE IF Len(filteredPeaks) + 1 >= count
              THEN Append(filteredPeaks, Head(rest))
              ELSE FilterHarmonics(Append(filteredPeaks, Head(rest)),
                                   Tail(rest), count)

\* The candidate peaks of the first pass, in the order of the array.
CandidatePeaks(data, rate, size) ==
    IF ~HasBins(rate, size) THEN <<>>
    ELSE FirstPass(<<>>, MinBin(rate, size),
                   Min(Len(data) - 1, MaxBin(rate, size)),
                   data, SmoothedData(data), MinBin(rate, size),
                   BinSize(rate, size))

\* The peaks findFrequencyPeaks keeps, with their magnitudes.
FilteredPeaks(data, rate, size) ==
    FilterHarmonics(<<>>, SortByMagnitude(<<>>, CandidatePeaks(data, rate, size)),
                    peakCount)

\* The peaks findFrequencyPeaks keeps when called with a peakCount.
FilteredPeaksUpTo(data, rate, size, count) ==
    FilterHarmonics(<<>>, SortByMagnitude(<<>>, CandidatePeaks(data, rate, size)),
                    count)

\* findFrequencyPeaks called with all four arguments.
FindFrequencyPeaksUpTo(data, rate, size, count) ==
    LET filteredPeaks == FilteredPeaksUpTo(data, rate, size, count)
    IN  [k \in 1..Len(filteredPeaks) |-> filteredPeaks[k].frequency]

\* findFrequencyPeaks with the default peakCount.
FindFrequencyPeaks(data, rate, size) ==
    LET filteredPeaks == FilteredPeaks(data, rate, size)
    IN  [k \in 1..Len(filteredPeaks) |-> filteredPeaks[k].frequency]

(***************************************************************************)
(* detectChord.                                                            *)
(***************************************************************************)

\* A map that hands the notes over last first.
NotesOfReversed(frequencies) ==
    [k \in 1..Len(frequencies) |->
        FindClosestNote(frequencies[(Len(frequencies) + 1) - k])]

\* peaks.map(freq => this.findClosestNote(freq))
NotesOf(frequencies) ==
    [k \in 1..Len(frequencies) |-> FindClosestNote(frequencies[k])]

\* A detectChord that hands every list of notes, however short, to
\* identifyChord.
DetectChordAlwaysIdentifying(data, rate, size) ==
    LET found == IF IsDataMostlySilent(data) THEN <<>>
                 ELSE FindFrequencyPeaks(data, rate, size)
        identifiedChord == IdentifyChord(NotesOf(found))
    IN  [name |-> identifiedChord.name, formula |-> identifiedChord.formula,
         notes |-> NotesOf(found), frequencies |-> found,
         threw |-> identifiedChord.threw]

\* detectChord.  threw: the call ended in an exception instead of a value.
DetectChord(data, rate, size) ==
    IF IsDataMostlySilent(data)
    THEN [name |-> "", formula |-> "", notes |-> <<>>, frequencies |-> <<>>,
          threw |-> FALSE]
    ELSE LET found == FindFrequencyPeaks(data, rate, size)
             mapped == NotesOf(found)
             identifiedChord == IdentifyChord(mapped)
         IN  IF Len(found) < 2
             THEN [name |-> IF Len(mapped) > 0 THEN mapped[1].name ELSE "",
                   formula |-> "", notes |-> mapped, frequencies |-> found,
                   threw |-> FALSE]
             ELSE [name |-> identifiedChord.name,
                   formula |-> identifiedChord.formula,
                   notes |-> mapped, frequencies |-> found,
                   threw |-> identifiedChord.threw]

(***************************************************************************)
(* Calls of the Note Mapper.                                               *)
(***************************************************************************)

\* NOTE_FREQUENCIES: the reference frequency of octave 4 under each name,
\* in the order of the declaration.
NOTE_FREQUENCIES ==
    << [name |-> "C",  frequency |-> 2616300],
       [name |-> "C#", frequency |-> 2771800],
       [name |-> "Db", frequency |-> 2771800],
       [name |-> "D",  frequency |-> 2936600],
       [name |-> "D#", frequency |-> 3111300],
       [name |-> "Eb", frequency |-> 3111300],
       [name |-> "E",  frequency |-> 3296300],
       [name |-> "F",  frequency |-> 3492300],
       [name |-> "F#", frequency |-> 3699900],
       [name |-> "Gb", frequency |-> 3699900],
       [name |-> "G",  frequency |-> 3920000],
       [name |-> "G#", frequency |-> 4153000],
       [name |-> "Ab", frequency |-> 4153000],
       [name |-> "A",  frequency |-> 4400000],
       [name |-> "A#", frequency |-> 4661600],
       [name |-> "Bb", frequency |-> 4661600],
       [name |-> "B",  frequency |-> 4938800] >>

\* The frequencies findClosestNote is probed with: the references, a sweep
\* of the audible low range, zero and a negative frequency, and NaN.
MaxProbeHz == 1300

ProbeStepHz == 10

ProbeFrequencies ==
    {NOTE_FREQUENCIES[i].frequency : i \in 1..Len(NOTE_FREQUENCIES)}
        \cup {k * ProbeStepHz * FreqUnit : k \in 0..(MaxProbeHz \div ProbeStepHz)}
        \cup {0 - (100 * FreqUnit), NaN}

ClosestNoteCall ==
    /\ \E frequency \in ProbeFrequencies :
          noteCall' = <<[frequency |-> frequency,
                         note |-> FindClosestNote(frequency)]>>
    /\ UNCHANGED <<appVars, identifyVars, detectVars>>

(***************************************************************************)
(* Calls of the Chord Matcher.                                             *)
(***************************************************************************)

\* The twelve pitch-class names a Note can carry, from C.
pitchClassNames ==
    <<"C", "C#/Db", "D", "D#/Eb", "E", "F", "F#/Gb", "G", "G#/Ab", "A",
      "A#/Bb", "B">>

\* The ChordNote of the pitch n half steps from A4, as a caller of
\* identifyChord writes it: its name, its octave, its tempered frequency.
PitchNote(n) ==
    [name |-> pitchClassNames[((n + 57) % 12) + 1],
     octave |-> (n + 57) \div 12,
     frequency |-> EqualTempered(n)]

\* The pitches a caller picks single notes from: A1 and C2 (below 80 Hz,
\* where Math.max(frequency, 80) levels the weights), C4, E4, G4, A4, A#4
\* (a name of two spellings), B4 and C5.
PitchPool == {0 - 36, 0 - 33, 0 - 9, 0 - 5, 0 - 2, 0, 1, 2, 3}

\* The roots a caller builds a triad on: every pitch class of octave 4, and
\* of octave 1.
TriadRoots == ((0 - 9)..2) \cup {n - 36 : n \in (0 - 9)..2}

\* The orders three notes can be handed over in.
Orders3 == {<<1, 2, 3>>, <<1, 3, 2>>, <<2, 1, 3>>, <<2, 3, 1>>, <<3, 1, 2>>,
            <<3, 2, 1>>}

MaxNotes == 3

AddNote ==
    /\ identified = <<>>
    /\ Len(notes) < MaxNotes
    /\ \E n \in PitchPool : notes' = Append(notes, PitchNote(n))
    /\ UNCHANGED <<appVars, identified, noteVars, detectVars>>

\* The caller hands over the triad on a root: the root, its minor (3) or
\* major (4) third and its fifth, in close position, in any order.
AddTriad ==
    /\ identified = <<>>
    /\ notes = <<>>
    /\ \E root \in TriadRoots, third \in {3, 4}, order \in Orders3 :
          LET triad == <<PitchNote(root), PitchNote(root + third),
                         PitchNote(root + 7)>>
          IN  notes' = [i \in 1..3 |-> triad[order[i]]]
    /\ UNCHANGED <<appVars, identified, noteVars, detectVars>>

IdentifyCall ==
    /\ identified = <<>>
    /\ identified' = <<IdentifyChord(notes)>>
    /\ UNCHANGED <<appVars, notes, noteVars, detectVars>>

(***************************************************************************)
(* Frames and calls of the detector.                                       *)
(***************************************************************************)

\* The lengths of a frame's spectrum: shorter than the smoothing window,
\* ending below 1200 Hz, and reaching past it.  The spectrum before the
\* first frame is empty (AudioProcessor's resetData).
FrameLengths == {5, 40, 64}

\* The sampleRate and fftSize a caller passes: 20 Hz and 40 Hz bins, and a
\* zero for either.
Configs == {<<2560, 128>>, <<5120, 128>>, <<0, 128>>, <<2560, 0>>}

\* The bins a partial of the sound can have its top in: 220 Hz, 440 Hz and
\* 660 Hz under 20 Hz bins.
PartialBins == {11, 22, 33}

\* The shapes of a partial: the value at its top, the loss per bin on
\* either side of the top, and how many bins on either side of the centre
\* the top extends over.  A one-bin spike, a quiet and a loud triangle, and
\* a clipped top five bins wide.
PartialShapes ==
    { [peak |-> 255, skirt |-> 255, flat |-> 0],
      [peak |-> 100, skirt |-> 20, flat |-> 0],
      [peak |-> 255, skirt |-> 40, flat |-> 0],
      [peak |-> 255, skirt |-> 40, flat |-> 2] }

MaxPartials == 3

\* The value a partial has at bin j.
PartialAt(bin, shape, j) ==
    Max(0, shape.peak - (shape.skirt * Max(0, Abs(j - bin) - shape.flat)))

\* The analyser's byte spectrum with one more partial in it: values add up
\* and saturate at 255.
WithPartial(data, bin, shape) ==
    [k \in 1..Len(data) |-> Min(255, data[k] + PartialAt(bin, shape, k - 1))]

\* The analyser is set up: the frame has its length, and is silent.
NewFrame ==
    /\ frequencyData = <<>>
    /\ peaks = <<>>
    /\ chord = <<>>
    /\ \E length \in FrameLengths :
          frequencyData' = [k \in 1..length |-> 0]
    /\ UNCHANGED <<appVars, sounding, sampleRate, fftSize, maxPeaks, peaks,
                   chord, noteVars, identifyVars>>

Sound ==
    /\ frequencyData # <<>>
    /\ peaks = <<>>
    /\ chord = <<>>
    /\ sounding < MaxPartials
    /\ \E bin \in PartialBins, shape \in PartialShapes :
          frequencyData' = WithPartial(frequencyData, bin, shape)
    /\ sounding' = sounding + 1
    /\ UNCHANGED <<appVars, sampleRate, fftSize, maxPeaks, peaks, chord,
                   noteVars, identifyVars>>

FindPeaksCall ==
    /\ peaks = <<>>
    /\ chord = <<>>
    /\ \E config \in Configs :
          /\ sampleRate' = config[1]
          /\ fftSize' = config[2]
          /\ peaks' = <<FindFrequencyPeaks(frequencyData, config[1],
                                           config[2])>>
    /\ UNCHANGED <<appVars, frequencyData, sounding, maxPeaks, chord,
                   noteVars, identifyVars>>

DetectChordCall ==
    /\ peaks = <<>>
    /\ chord = <<>>
    /\ \E config \in Configs :
          /\ sampleRate' = config[1]
          /\ fftSize' = config[2]
          /\ chord' = <<DetectChord(frequencyData, config[1], config[2])>>
    /\ UNCHANGED <<appVars, frequencyData, sounding, maxPeaks, peaks,
                   noteVars, identifyVars>>

(***************************************************************************)
(* Sounds and calls of the Peak Finder with every argument.                *)
(***************************************************************************)

\* A sound is a sequence of partials that sound together, each a bin and a
\* shape.
Tone(bin, peak, skirt) ==
    <<[bin |-> bin, shape |-> [peak |-> peak, skirt |-> skirt, flat |-> 0]]>>

\* Four one-bin partials three bins apart, at 960 Hz to 1140 Hz under 20 Hz
\* bins: the smoothed spectrum peaks at the second and at the third, which
\* are less than a semitone apart, and the third is the stronger.
Comb ==
    Tone(48, 255, 255) \o Tone(51, 200, 200) \o Tone(54, 255, 255)
        \o Tone(57, 255, 255)

\* Two one-bin partials six bins apart: the smoothed spectrum peaks midway
\* between them, where the spectrum itself has nothing.
SpikePair == Tone(19, 255, 255) \o Tone(25, 255, 255)

\* Seven narrow partials, no two within a semitone and none near a
\* multiple of another.
SevenTones ==
    Tone(7, 255, 64) \o Tone(15, 255, 64) \o Tone(23, 255, 64)
        \o Tone(31, 255, 64) \o Tone(39, 255, 64) \o Tone(48, 255, 64)
        \o Tone(56, 255, 64)

\* The sounds a frame is made of: loud and quiet partials at 220 Hz, 440 Hz
\* and 660 Hz, a loud one at bin 2 (below 80 Hz), and the three above.
Sounds ==
    { Tone(22, 255, 40), Tone(22, 100, 20), Tone(11, 100, 20),
      Tone(33, 255, 40), Tone(2, 255, 40), Comb, SpikePair, SevenTones }

MaxSounds == 3

\* The spectrum with every partial of a sound in it.
RECURSIVE WithSound(_, _)
WithSound(data, sound) ==
    IF sound = <<>> THEN data
    ELSE WithSound(WithPartial(data, Head(sound).bin, Head(sound).shape),
                   Tail(sound))

Strike ==
    /\ frequencyData # <<>>
    /\ peaks = <<>>
    /\ chord = <<>>
    /\ sounding < MaxSounds
    /\ \E sound \in Sounds :
          frequencyData' = WithSound(frequencyData, sound)
    /\ sounding' = sounding + 1
    /\ UNCHANGED <<appVars, sampleRate, fftSize, maxPeaks, peaks, chord,
                   noteVars, identifyVars>>

\* The sampleRate and fftSize of a call: 20 Hz and 25 Hz bins.
PeakConfigs == {<<2560, 128>>, <<3200, 128>>}

\* The peakCount of a call: none, fewer than there are peaks, the default.
PeakCounts == {0, 2, peakCount}

FindPeaksUpToCall ==
    /\ peaks = <<>>
    /\ chord = <<>>
    /\ \E config \in PeakConfigs, count \in PeakCounts :
          /\ sampleRate' = config[1]
          /\ fftSize' = config[2]
          /\ maxPeaks' = count
          /\ peaks' = <<FindFrequencyPeaksUpTo(frequencyData, config[1],
                                               config[2], count)>>
    /\ UNCHANGED <<appVars, frequencyData, sounding, chord, noteVars,
                   identifyVars>>

(***************************************************************************)
(* Specifications.                                                         *)
(***************************************************************************)

Idle ==
    /\ noteCall = <<>>
    /\ notes = <<>>
    /\ identified = <<>>
    /\ frequencyData = <<>>
    /\ sounding = 0
    /\ maxPeaks = peakCount
    /\ sampleRate = 0
    /\ fftSize = 0
    /\ peaks = <<>>
    /\ chord = <<>>
    /\ spectrum = <<>>
    /\ contextRate = 0
    /\ dominant = <<>>
    /\ stream = 0
    /\ source = 0
    /\ analyser = FALSE
    /\ isInitialized = FALSE
    /\ isProcessing = FALSE
    /\ updateCallbacks = <<>>
    /\ calls = <<>>
    /\ liveStreams = {}
    /\ frames = 0
    /\ subscribed = 0
    /\ unsubscribed = {}
    /\ round = <<>>
    /\ startedSince = FALSE
    /\ now = 0
    /\ detectedChord = ""
    /\ chordHistory = <<>>
    /\ lastDetectedChord = ""
    /\ lastChordTime = 0

NoteInit == Idle

NoteNext == ClosestNoteCall

SpecNote == NoteInit /\ [][NoteNext]_vars

IdentifyInit == Idle

IdentifyNext == AddNote \/ AddTriad \/ IdentifyCall

SpecIdentify == IdentifyInit /\ [][IdentifyNext]_vars

DetectInit == Idle

DetectNext == NewFrame \/ Sound \/ FindPeaksCall \/ DetectChordCall

SpecDetect == DetectInit /\ [][DetectNext]_vars

PeaksInit == Idle

PeaksNext == NewFrame \/ Strike \/ FindPeaksUpToCall \/ DetectChordCall

SpecPeaks == PeaksInit /\ [][PeaksNext]_vars

(***************************************************************************)
(* Claims about the Chord Matcher (SpecIdentify).                          *)
(***************************************************************************)

\* The half steps from A4 of a ChordNote a caller wrote.
NotePitch(note) ==
    (12 * note.octave - 57)
        + ((CHOOSE k \in 1..12 : pitchClassNames[k] = note.name) - 1)

\* notes is exactly the close-position triad on root with the given third
\* (3: minor, 4: major), the root being its lowest note, in any order.
IsTriadOn(root, third) ==
    /\ Len(notes) = 3
    /\ {NotePitch(notes[i]) : i \in 1..3} = {root, root + third, root + 7}

\* The sharp spelling of the pitch class of a pitch.
SharpName(pitch) == chordNoteNames[((pitch + 57) % 12) + 1]

\* C1: whenever identify is given exactly the major triad on a root R (R,
\* R+4, R+7 half steps, the root lowest), it returns the name R in sharp
\* spelling with no suffix and the formula "1-3-5".
C1_MajorTriadNamed ==
    \A root \in TriadRoots :
        (identified # <<>> /\ IsTriadOn(root, 4))
            => /\ identified[1].name = SharpName(root)
               /\ identified[1].formula = "1-3-5"

\* C2: whenever identify is given exactly the minor triad on a root R (R,
\* R+3, R+7 half steps, the root lowest), it returns the name R followed by
\* "m" and the formula "1-b3-5", and so never the major chord on R.
C2_MinorTriadNamed ==
    \A root \in TriadRoots :
        (identified # <<>> /\ IsTriadOn(root, 3))
            => /\ identified[1].name = SharpName(root) \o "m"
               /\ identified[1].formula = "1-b3-5"
               /\ identified[1].name # SharpName(root)

\* identify has answered for A4, C5, E5, and the answer is Am.
C2_Witness ==
    /\ notes = <<PitchNote(0), PitchNote(3), PitchNote(7)>>
    /\ identified = <<[name |-> "Am", formula |-> "1-b3-5", threw |-> FALSE]>>

\* C14: identify on no notes returns the empty name and the empty formula;
\* on exactly one note it returns the note's first spelling (the part of
\* its name before "/") and the formula "1".
C14_EmptyAndSingle ==
    identified # <<>> =>
        /\ Len(notes) = 0 =>
              identified[1] = [name |-> "", formula |-> "", threw |-> FALSE]
        /\ Len(notes) = 1 =>
              identified[1] = [name |-> SharpName(NotePitch(notes[1])),
                               formula |-> "1", threw |-> FALSE]

\* identify has answered A# for the single note A#/Bb.
C14_Witness ==
    /\ notes = <<PitchNote(1)>>
    /\ notes[1].name = "A#/Bb"
    /\ identified = <<[name |-> "A#", formula |-> "1", threw |-> FALSE]>>

\* The (root, template) pairs identify goes through for the sorted notes,
\* each with its place in the enumeration (by root candidate, then by
\* spelling of the root, then by template as the table is iterated), whether
\* it is eligible (it matches min(2, template length) notes) and its score.
PairsOf(noteInfo) ==
    LET roots == RootsToTry([i \in 1..Len(noteInfo) |-> noteInfo[i].name])
    IN  UNION {{[root |-> SplitSlash(roots[r])[v],
                 suffix |-> chordEntries[e].suffix,
                 degrees |-> chordEntries[e].formula,
                 name |-> SplitSlash(roots[r])[v] \o chordEntries[e].suffix,
                 formula |-> JoinDash(chordEntries[e].formula),
                 place |-> (((r * 100) + v) * 100) + e,
                 eligible |->
                     MatchedNotes(SplitSlash(roots[r])[v],
                                  chordEntries[e].formula, noteInfo)
                         >= Min(2, Len(chordEntries[e].formula)),
                 score |-> ScoreOf(SplitSlash(roots[r])[v],
                                   chordEntries[e].formula, noteInfo)] :
                    v \in 1..Len(SplitSlash(roots[r])),
                    e \in 1..Len(chordEntries)} : r \in 1..Len(roots)}

C18_FallbackBestWeighted ==
    (identified # <<>> /\ Len(notes) >= 2) =>
        LET noteInfo == NoteInfoOf(notes)
            heaviest == {i \in 1..Len(noteInfo) :
                            \A j \in 1..Len(noteInfo) :
                                noteInfo[j].weight <= noteInfo[i].weight}
        IN  (\A p \in PairsOf(SortByWeight(noteInfo)) :
                 p.eligible => p.score <= 0) =>
                /\ identified[1].formula = "1"
                /\ \E i \in heaviest :
                       identified[1].name = Head(SplitSlash(noteInfo[i].name))

\* The input note a name is first met at when the notes are gone through
\* by weight, heaviest first, and by input position among equal weights.
FirstPlaceOf(noteInfo, name) ==
    CHOOSE i \in 1..Len(noteInfo) :
        /\ noteInfo[i].name = name
        /\ \A j \in 1..Len(noteInfo) :
               noteInfo[j].name = name =>
                   \/ noteInfo[i].weight > noteInfo[j].weight
                   \/ noteInfo[i].weight = noteInfo[j].weight /\ i <= j

\* C22: for two or more notes identify tries the root candidates in order
\* of non-increasing weight 1 / max(frequency, 80), notes of equal weight in
\* input order, and each pitch-class name once, at its first position.
C22_RootsByWeight ==
    (identified # <<>> /\ Len(notes) >= 2) =>
        LET noteInfo == NoteInfoOf(notes)
            sorted == SortByWeight(noteInfo)
            rootsToTry == RootsToTry([i \in 1..Len(sorted) |-> sorted[i].name])
        IN  /\ SeqRange(rootsToTry) = {notes[i].name : i \in 1..Len(notes)}
            /\ \A a, b \in 1..Len(rootsToTry) :
                   a < b =>
                       LET i == FirstPlaceOf(noteInfo, rootsToTry[a])
                           j == FirstPlaceOf(noteInfo, rootsToTry[b])
                       IN  /\ rootsToTry[a] # rootsToTry[b]
                           /\ \/ noteInfo[i].weight > noteInfo[j].weight
                              \/ /\ noteInfo[i].weight = noteInfo[j].weight
                                 /\ i < j

\* identify has been given C2, A1 and C2 again, all of weight 1/80, and has
\* tried C and then A.
C22_Witness ==
    /\ notes = <<PitchNote(0 - 33), PitchNote(0 - 36), PitchNote(0 - 33)>>
    /\ identified # <<>>
    /\ WeightOf(notes[1].frequency) = WeightOf(notes[2].frequency)
    /\ notes[2].frequency < notes[1].frequency
    /\ RootsToTry([i \in 1..3 |->
                      SortByWeight(NoteInfoOf(notes))[i].name]) = <<"C", "A">>

\* C24: identify enumerates the chord templates in the order they are
\* declared in CHORD_FORMULAS, plain triads first: when a plain triad and
\* one of its "6" or "7" extensions are eligible and score equally for the
\* same root, the extension is not the one returned.
C24_DeclaredOrder ==
    (identified # <<>> /\ Len(notes) >= 2) =>
        \A p, q \in PairsOf(SortByWeight(NoteInfoOf(notes))) :
            (/\ p.root = q.root
             /\ p.suffix \in {"", "m"}
             /\ q.suffix \in {"6", "m6", "7", "maj7", "m7"}
             /\ p.eligible /\ q.eligible
             /\ p.score = q.score) =>
                ~(/\ identified[1].name = q.name
                  /\ identified[1].formula = q.formula)

\* The pitch class of a note, counted from C, and the pitch class a degree
\* of a formula stands for on a root in sharp spelling.
PitchClassOf(note) ==
    (CHOOSE k \in 1..12 : pitchClassNames[k] = note.name) - 1

DegreePitchClass(root, degree) ==
    (((CHOOSE k \in 1..12 : chordNoteNames[k] = root) - 1)
        + intervalToSemitones(degree)) % 12

\* C25: whenever identify, given two or more notes, returns a template
\* match (a formula other than "1"), every degree of the winning formula
\* that is a root, a major or minor third or a perfect fifth is among the
\* pitch classes of the input notes, and at least two input notes are notes
\* of the template.
C25_EssentialDegreesPresent ==
    (/\ identified # <<>>
     /\ Len(notes) >= 2
     /\ identified[1].formula # "1") =>
        \E p \in PairsOf(SortByWeight(NoteInfoOf(notes))) :
            /\ identified[1].name = p.name
            /\ identified[1].formula = p.formula
            /\ p.root \in SeqRange(chordNoteNames)
            /\ \A d \in SeqRange(p.degrees) \cap {"1", "3", "b3", "5"} :
                   \E i \in 1..Len(notes) :
                       PitchClassOf(notes[i]) = DegreePitchClass(p.root, d)
            /\ Cardinality({i \in 1..Len(notes) :
                   \E d \in SeqRange(p.degrees) :
                       PitchClassOf(notes[i]) = DegreePitchClass(p.root, d)})
                   >= 2

\* identify has named E4 and G4 the diminished triad on E: root and minor
\* third are there, the diminished fifth, no essential degree, is not.
C25_Witness ==
    /\ notes = <<PitchNote(0 - 5), PitchNote(0 - 2)>>
    /\ identified = <<[name |-> "Edim", formula |-> "1-b3-b5",
                       threw |-> FALSE]>>

(***************************************************************************)
(* Claims about the Note Mapper (SpecNote).                                *)
(***************************************************************************)

\* C3: for each of the 12 reference frequencies of octave 4, closestNote
\* returns the pitch class of the reference (a name that is, or pairs, the
\* reference's name), octave 4, and a retuned frequency within 0.01 Hz of
\* the reference.
C3_ReferenceRoundTrip ==
    \A i \in 1..Len(NOTE_FREQUENCIES) :
        (noteCall # <<>> /\ noteCall[1].frequency = NOTE_FREQUENCIES[i].frequency)
            => /\ NOTE_FREQUENCIES[i].name
                    \in SeqRange(SplitSlash(noteCall[1].note.name))
               /\ noteCall[1].note.octave = 4
               /\ Abs(noteCall[1].note.frequency - NOTE_FREQUENCIES[i].frequency)
                    <= FreqUnit \div 100

\* C16: closestNote returns the sentinel, the name "Unknown" with octave 0
\* and frequency 0, for every input that is not a positive finite
\* frequency: zero, a negative value, NaN.
C16_SentinelForInvalid ==
    (/\ noteCall # <<>>
     /\ (IsNaN(noteCall[1].frequency) \/ noteCall[1].frequency <= 0))
        => noteCall[1].note
             = [name |-> "Unknown", octave |-> 0, frequency |-> 0]

(***************************************************************************)
(* Claims about the Peak Finder and detectChord (SpecDetect).              *)
(***************************************************************************)

\* The bin whose centre frequency is nearest to hz.
NearestBin(hz, rate, size) == ((2 * hz * size) + rate) \div (2 * rate)

\* The spectrum's only non-zero bin is bin.
IsolatedSpike(data, bin) ==
    /\ bin < Len(data)
    /\ \A k \in 1..Len(data) : (data[k] # 0) <=> (k = bin + 1)

\* C4: for a spectrum whose only non-zero bin is the bin nearest 440 Hz,
\* findFrequencyPeaks returns exactly one frequency, within 2 Hz of 440 Hz,
\* and findClosestNote names it A, octave 4.
C4_IsolatedSpikeFound ==
    (/\ peaks # <<>>
     /\ sampleRate > 0
     /\ fftSize > 0
     /\ IsolatedSpike(frequencyData, NearestBin(440, sampleRate, fftSize)))
        => /\ Len(peaks[1]) = 1
           /\ Abs(peaks[1][1] - (440 * FreqUnit)) <= 2 * FreqUnit
           /\ FindClosestNote(peaks[1][1]).name = "A"
           /\ FindClosestNote(peaks[1][1]).octave = 4

\* What detectChord returns when it has nothing to report.
EmptyChord ==
    [name |-> "", formula |-> "", notes |-> <<>>, frequencies |-> <<>>,
     threw |-> FALSE]

\* The mean of the spectrum is below 10.
MeanBelowTen ==
    /\ Len(frequencyData) > 0
    /\ SumSeq(frequencyData) < 10 * Len(frequencyData)

PeaksAt220And440 ==
    LET candidates == CandidatePeaks(frequencyData, sampleRate, fftSize)
    IN  /\ Len(candidates) = 2
        /\ candidates[1].frequency = 220 * FreqUnit
        /\ candidates[2].frequency = 440 * FreqUnit
        /\ candidates[2].magnitude <= candidates[1].magnitude

\* C6: no frequency findFrequencyPeaks returns lies within 3% of 2, 3 or 4
\* times a frequency returned before it; and of peaks at 220 Hz and 440 Hz,
\* the second no stronger than the first, only 220 Hz is returned.
C6_NoHarmonicReturned ==
    peaks # <<>> =>
        /\ \A i \in 1..Len(peaks[1]), j \in 1..Len(peaks[1]) :
              (i < j /\ ~IsNaN(peaks[1][i]) /\ ~IsNaN(peaks[1][j])) =>
                  \A harmonic \in 2..4 :
                      Abs(peaks[1][j] - (harmonic * peaks[1][i]))
                          > (((3 * harmonic) * peaks[1][i]) - 1) \div 100
        /\ PeaksAt220And440 => peaks[1] = <<220 * FreqUnit>>

\* findFrequencyPeaks has answered 220 Hz alone for peaks at 220 Hz and
\* 440 Hz.
C6_Witness ==
    /\ peaks = <<<<220 * FreqUnit>>>>
    /\ PeaksAt220And440

\* C8: detectChord never throws: whatever the spectrum, the sample rate and
\* the FFT size, the call returns a value.
C8_NeverThrows ==
    chord # <<>> => ~chord[1].threw

\* detectChord has returned for a single peak whose note has no name, the
\* note identifyChord throws on.
C8_Witness ==
    /\ chord # <<>>
    /\ Len(chord[1].notes) = 1
    /\ chord[1].notes[1].name = Undefined
    /\ ~chord[1].threw

\* C9: every ChordResult of detectChord is structurally valid: every
\* frequency is a finite positive number, and every note has one of the 12
\* pitch-class names, an integer octave and a finite positive frequency.
C9_StructurallyValid ==
    chord # <<>> =>
        /\ \A k \in 1..Len(chord[1].frequencies) :
              ~IsNaN(chord[1].frequencies[k]) /\ chord[1].frequencies[k] > 0
        /\ \A k \in 1..Len(chord[1].notes) :
              /\ chord[1].notes[k].name \in SeqRange(pitchClassNames)
              /\ ~IsNaN(chord[1].notes[k].octave)
              /\ ~IsNaN(chord[1].notes[k].frequency)
              /\ chord[1].notes[k].frequency > 0

\* C10: in every ChordResult of detectChord, notes and frequencies have
\* the same length, and notes[i] is findClosestNote(frequencies[i]).
C10_NotesMatchFrequencies ==
    chord # <<>> =>
        /\ Len(chord[1].notes) = Len(chord[1].frequencies)
        /\ \A k \in 1..Len(chord[1].notes) :
              chord[1].notes[k] = FindClosestNote(chord[1].frequencies[k])

\* detectChord has returned three frequencies whose notes differ.
C10_Witness ==
    /\ chord # <<>>
    /\ Len(chord[1].frequencies) = 3
    /\ chord[1].notes[1] # chord[1].notes[3]
    /\ chord[1].notes[1] = FindClosestNote(chord[1].frequencies[1])

\* C15: when the peak search yields exactly one peak (here: one whose
\* frequency is a number), detectChord's name and formula are those
\* identify gives for the single note: the first spelling of the note's
\* name and the formula "1"; a name that is not empty never comes with
\* the empty formula.
C15_SinglePeakAsIdentify ==
    (/\ chord # <<>>
     /\ Len(chord[1].frequencies) = 1
     /\ ~IsNaN(chord[1].frequencies[1]))
        => /\ chord[1].name = Head(SplitSlash(chord[1].notes[1].name))
           /\ chord[1].formula = "1"
           /\ chord[1].name # "" => chord[1].formula # ""

(***************************************************************************)
(* Claims about the Peak Finder called with every argument (SpecPeaks).    *)
(***************************************************************************)

\* |12 * log2(a / b)| >= 1 on JavaScript numbers: a >= b * 2^(1/12) or
\* b >= a * 2^(1/12), and false when either is NaN.
SemitoneApart(a, b) ==
    /\ ~IsNaN(a)
    /\ ~IsNaN(b)
    /\ (a > TimesSemitone(b) \/ b > TimesSemitone(a))

\* C11: any two frequencies one findFrequencyPeaks call returns are at
\* least one semitone apart, |12 * log2(f1 / f2)| >= 1, also after a peak
\* took the frequency of a stronger candidate near it.
C11_PeaksSemitoneApart ==
    peaks # <<>> =>
        \A i \in 1..Len(peaks[1]), j \in 1..Len(peaks[1]) :
            i < j => SemitoneApart(peaks[1][i], peaks[1][j])

\* The same of the frequencies that are numbers.
FinitePeaksSemitoneApart ==
    peaks # <<>> =>
        \A i \in 1..Len(peaks[1]), j \in 1..Len(peaks[1]) :
            (i < j /\ ~IsNaN(peaks[1][i]) /\ ~IsNaN(peaks[1][j]))
                => SemitoneApart(peaks[1][i], peaks[1][j])

\* C12: findFrequencyPeaks returns at most peakCount frequencies, for every
\* peakCount from 0, and so a ChordResult has at most 6 notes.
C12_AtMostMaxPeaks ==
    /\ peaks # <<>> => Len(peaks[1]) <= maxPeaks
    /\ chord # <<>> => Len(chord[1].notes) <= peakCount

\* The same for every peakCount from 1.
AtMostMaxPeaksFromOne ==
    /\ (peaks # <<>> /\ maxPeaks >= 1) => Len(peaks[1]) <= maxPeaks
    /\ chord # <<>> => Len(chord[1].notes) <= peakCount

\* C13: the frequencies findFrequencyPeaks returns are in the order of
\* non-increasing recorded magnitude, and peaks of equal magnitude are in
\* the order the first pass found them.
C13_OrderedByMagnitude ==
    peaks # <<>> =>
        LET kept == FilteredPeaksUpTo(frequencyData, sampleRate, fftSize,
                                      maxPeaks)
            candidates == CandidatePeaks(frequencyData, sampleRate, fftSize)
        IN  /\ peaks[1] = [k \in 1..Len(kept) |-> kept[k].frequency]
            /\ \A i \in 1..Len(kept), j \in 1..Len(kept) :
                  i < j =>
                      /\ kept[i].magnitude >= kept[j].magnitude
                      /\ kept[i].magnitude = kept[j].magnitude =>
                            \E a \in 1..Len(candidates),
                               b \in 1..Len(candidates) :
                                /\ a < b
                                /\ candidates[a] = kept[i]
                                /\ candidates[b] = kept[j]

\* findFrequencyPeaks has returned 440 Hz and 660 Hz, equally strong, in
\* this order, and after them the weaker 220 Hz.
C13_Witness ==
    peaks = << <<440 * FreqUnit, 660 * FreqUnit, 220 * FreqUnit>> >>


\* C19: every frequency findPeaks returns lies within the band of 80 Hz to
\* 1200 Hz, whatever the magnitudes outside the band (a frequency that is
\* NaN is no frequency outside the band).
C19_PeaksWithinBand ==
    peaks # <<>> =>
        \A i \in 1..Len(peaks[1]) :
            \/ IsNaN(peaks[1][i])
            \/ /\ peaks[1][i] >= lowestHz * FreqUnit
               /\ peaks[1][i] <= highestHz * FreqUnit


\* The bins a kept peak may have been refined to: the actual-peak bins of
\* the candidate bins whose refined frequency is the peak's.
RefinedBins(data, rate, size, peak) ==
    {ActualPeak(data, SmoothedData(data), i).peakBin :
        i \in {b \in MinBin(rate, size)
                     ..(Min(Len(data) - 1, MaxBin(rate, size)) - 1) :
                  /\ IsCandidate(SmoothedData(data), b, MinBin(rate, size))
                  /\ RefinedFrequency(data,
                         ActualPeak(data, SmoothedData(data), b).peakBin,
                         BinSize(rate, size)) = peak.frequency}}

\* C20: the magnitude recorded for every peak findPeaks keeps is the value
\* of the unsmoothed spectrum at the bin the peak was refined to.
C20_MagnitudeUnsmoothed ==
    peaks # <<>> =>
        LET filteredPeaks == FilteredPeaksUpTo(frequencyData, sampleRate,
                                               fftSize, maxPeaks)
        IN  \A k \in 1..Len(filteredPeaks) :
                \E peakBin \in RefinedBins(frequencyData, sampleRate, fftSize,
                                           filteredPeaks[k]) :
                    filteredPeaks[k].magnitude = Read(frequencyData, peakBin)


\* The candidate bins of the first pass for a spectrum.
CandidateBins(data, rate, size) ==
    IF ~HasBins(rate, size) THEN {}
    ELSE {i \in MinBin(rate, size)
                    ..(Min(Len(data) - 1, MaxBin(rate, size)) - 1) :
             IsCandidate(SmoothedData(data), i, MinBin(rate, size))}

\* C21: for every candidate peak found at smoothed bin i, the refined
\* frequency is (i + offset) * binSize with offset in [-0.5, +0.5], at most
\* half a bin away from bin i (a refined frequency that is NaN is left to
\* the claims about NaN).
C21_RefinedWithinHalfBin ==
    peaks # <<>> =>
        \A i \in CandidateBins(frequencyData, sampleRate, fftSize) :
            LET binSize == BinSize(sampleRate, fftSize)
                refinedFrequency ==
                    RefinedFrequency(frequencyData,
                        ActualPeak(frequencyData, SmoothedData(frequencyData),
                                   i).peakBin, binSize)
            IN  \/ IsNaN(refinedFrequency)
                \/ 2 * Abs(refinedFrequency - (i * binSize)) <= binSize

\* The same distance measured from the bin the search for the actual peak
\* ended on: the interpolation itself never moves further than half a bin.
RefinedWithinHalfBinOfPeakBin ==
    peaks # <<>> =>
        \A i \in CandidateBins(frequencyData, sampleRate, fftSize) :
            LET binSize == BinSize(sampleRate, fftSize)
                peakBin == ActualPeak(frequencyData,
                                      SmoothedData(frequencyData), i).peakBin
                refinedFrequency ==
                    RefinedFrequency(frequencyData, peakBin, binSize)
            IN  \/ IsNaN(refinedFrequency)
                \/ 2 * Abs(refinedFrequency - (peakBin * binSize)) <= binSize


(***************************************************************************)
(* AudioProcessor: the microphone, the analyser and the processing loop.   *)
(* One step is what runs without an await: a call up to its first await,  *)
(* the continuation of a promise, or one animation frame callback.  The    *)
(* browser of the model has navigator.mediaDevices.getUserMedia.           *)
(***************************************************************************)

\* The JavaScript value null.
Null == "null"

\* private fftSize = 2048, copied to analyser.fftSize.
analyserFftSize == 2048

\* analyser.frequencyBinCount: half the FFT size.
frequencyBinCount == analyserFftSize \div 2

\* new Uint8Array(n)
Zeros(n) == [k \in 1..n |-> 0]

\* What getByteFrequencyData may write: spectra of at most two bins that
\* are not zero, the first bin, the last bin and two bins between, each
\* below the silence limit of 10, at it or well above.
SpectrumBins == {0, 10, 100, frequencyBinCount - 1}

SpectrumValues == {9, 10, 200}

Spectrum(bin1, value1, bin2, value2) ==
    [k \in 1..frequencyBinCount |->
        IF k - 1 = bin1 THEN value1
        ELSE IF k - 1 = bin2 THEN value2
        ELSE 0]

Spectra ==
    {Spectrum(bin1, value1, bin2, value2) :
        bin1 \in SpectrumBins, value1 \in SpectrumValues,
        bin2 \in SpectrumBins, value2 \in SpectrumValues}

\* The one spectrum of the runs that look at the loop and not at the data.
OneSpectrum == {Spectrum(100, 200, 100, 200)}

\* The sample rates a new AudioContext may have.
ContextRates == {44100, 48000}

\* The initialize() calls and the subscribe() calls of a run.
MaxCalls == 2

MaxSubscribers == 2

\* stop(): what it does to the processor.
StopBody ==
    /\ isProcessing' = FALSE
    /\ liveStreams' = liveStreams \ {stream}
    /\ stream' = 0
    /\ source' = 0
    /\ analyser' = FALSE
    /\ spectrum' = <<>>

\* array.filter(cb => cb is not one of gone)
RECURSIVE Without(_, _)
Without(callbacks, gone) ==
    IF callbacks = <<>> THEN <<>>
    ELSE IF Head(callbacks) \in gone
         THEN Without(Tail(callbacks), gone)
         ELSE <<Head(callbacks)>> \o Without(Tail(callbacks), gone)

\* notifyListeners: updateCallbacks.forEach goes through the array it was
\* called on.  plan[k] is the callback whose unsubscribe function the k-th
\* callback invoked calls (0: none); unsubscribe puts a filtered copy in
\* updateCallbacks and leaves the array forEach walks as it is.
RoundOf(callbacks, plan) ==
    [k \in 1..Len(callbacks) |->
        [callback |-> callbacks[k],
         unsubscribed |->
             callbacks[k] \in
                 unsubscribed \cup {plan[j] : j \in 1..(k - 1)}]]

\* processAudio, entered with isProcessing = processing and pending
\* callbacks still waiting for an animation frame.
ProcessAudio(processing, pending, spectra) ==
    IF ~processing \/ ~analyser
    THEN /\ frames' = pending
         /\ UNCHANGED <<spectrum, updateCallbacks, unsubscribed, round>>
    ELSE \E data \in spectra,
            plan \in [1..Len(updateCallbacks) -> 0..subscribed] :
            LET gone == {plan[k] : k \in 1..Len(updateCallbacks)} \ {0}
            IN  /\ spectrum' = data
                /\ round' = RoundOf(updateCallbacks, plan)
                /\ updateCallbacks' = Without(updateCallbacks, gone)
                /\ unsubscribed' = unsubscribed \cup gone
                /\ frames' = pending + 1

\* initialize(), up to await getUserMedia.
InitializeCall(maxCalls) ==
    /\ dominant = <<>>
    /\ Len(calls) < maxCalls
    /\ calls' = Append(calls, [pc |-> "getUserMedia", stopped |-> FALSE])
    /\ startedSince' = FALSE
    /\ IF stream # 0
       THEN StopBody
       ELSE UNCHANGED <<isProcessing, liveStreams, stream, source, analyser,
                        spectrum>>
    /\ UNCHANGED <<contextRate, dominant, isInitialized, updateCallbacks,
                   frames, subscribed, unsubscribed, round>>
    /\ UNCHANGED <<noteVars, identifyVars, detectVars, historyVars>>

\* The rest of initialize() from createMediaStreamSource on.
FinishInitialize(c, current) ==
    /\ source' = current
    /\ analyser' = TRUE
    /\ spectrum' = Zeros(frequencyBinCount)
    /\ isInitialized' = TRUE
    /\ calls' = [calls EXCEPT ![c].pc = "true"]

\* getUserMedia resolves with a new MediaStream: initialize() goes on to
\* await audioContext.resume() when the context is suspended, and to its
\* end when it is running.
InitializeGranted(c) ==
    /\ dominant = <<>>
    /\ c \in 1..Len(calls)
    /\ calls[c].pc = "getUserMedia"
    /\ stream' = c
    /\ liveStreams' = liveStreams \cup {c}
    /\ IF contextRate = 0
       THEN contextRate' \in ContextRates
       ELSE contextRate' = contextRate
    /\ \/ /\ calls' = [calls EXCEPT ![c].pc = "resume"]
          /\ UNCHANGED <<source, analyser, spectrum, isInitialized>>
       \/ FinishInitialize(c, c)
    /\ UNCHANGED <<dominant, isProcessing, updateCallbacks, frames,
                   subscribed, unsubscribed, round, startedSince>>
    /\ UNCHANGED <<noteVars, identifyVars, detectVars, historyVars>>

\* getUserMedia rejects: initialize() resolves to false.
InitializeDenied(c) ==
    /\ dominant = <<>>
    /\ c \in 1..Len(calls)
    /\ calls[c].pc = "getUserMedia"
    /\ calls' = [calls EXCEPT ![c].pc = "false"]
    /\ UNCHANGED <<dominantVars, stream, source, analyser, isInitialized,
                   isProcessing, updateCallbacks, liveStreams, frames,
                   subscribed, unsubscribed, round, startedSince>>
    /\ UNCHANGED <<noteVars, identifyVars, detectVars, historyVars>>

\* audioContext.resume() resolves.  createMediaStreamSource(null) throws a
\* TypeError, which the catch turns into false.
InitializeResumed(c) ==
    /\ dominant = <<>>
    /\ c \in 1..Len(calls)
    /\ calls[c].pc = "resume"
    /\ IF stream = 0
       THEN /\ calls' = [calls EXCEPT ![c].pc = "false"]
            /\ UNCHANGED <<source, analyser, spectrum, isInitialized>>
       ELSE FinishInitialize(c, stream)
    /\ UNCHANGED <<contextRate, dominant, stream, isProcessing,
                   updateCallbacks, liveStreams, frames, subscribed,
                   unsubscribed, round, startedSince>>
    /\ UNCHANGED <<noteVars, identifyVars, detectVars, historyVars>>

\* start()
Start(spectra) ==
    /\ dominant = <<>>
    /\ startedSince' = /\ calls # <<>>
                       /\ calls[Len(calls)].pc = "true"
                       /\ ~calls[Len(calls)].stopped
    /\ IF ~isInitialized \/ isProcessing
       THEN UNCHANGED <<isProcessing, frames, spectrum, updateCallbacks,
                        unsubscribed, round>>
       ELSE /\ isProcessing' = TRUE
            /\ ProcessAudio(TRUE, frames, spectra)
    /\ UNCHANGED <<contextRate, dominant, stream, source, analyser,
                   isInitialized, calls, liveStreams, subscribed>>
    /\ UNCHANGED <<noteVars, identifyVars, detectVars, historyVars>>

\* stop()
Stop ==
    /\ dominant = <<>>
    /\ StopBody
    /\ startedSince' = FALSE
    /\ calls' = [c \in 1..Len(calls) |->
                    IF calls[c].pc = "true"
                    THEN [calls[c] EXCEPT !.stopped = TRUE]
                    ELSE calls[c]]
    /\ UNCHANGED <<contextRate, dominant, isInitialized, updateCallbacks,
                   frames, subscribed, unsubscribed, round>>
    /\ UNCHANGED <<noteVars, identifyVars, detectVars, historyVars>>

\* An animation frame: one pending () => this.processAudio() runs.
AnimationFrame(spectra) ==
    /\ dominant = <<>>
    /\ frames > 0
    /\ ProcessAudio(isProcessing, frames - 1, spectra)
    /\ UNCHANGED <<contextRate, dominant, stream, source, analyser,
                   isInitialized, isProcessing, calls, liveStreams,
                   subscribed, startedSince>>
    /\ UNCHANGED <<noteVars, identifyVars, detectVars, historyVars>>

\* subscribe(callback) with a new callback.
Subscribe ==
    /\ dominant = <<>>
    /\ subscribed < MaxSubscribers
    /\ subscribed' = subscribed + 1
    /\ updateCallbacks' = Append(updateCallbacks, subscribed + 1)
    /\ UNCHANGED <<dominantVars, stream, source, analyser, isInitialized,
                   isProcessing, calls, liveStreams, frames, unsubscribed,
                   round, startedSince>>
    /\ UNCHANGED <<noteVars, identifyVars, detectVars, historyVars>>

\* The function subscribe returned for callback c is called, outside of a
\* notification round.
Unsubscribe(c) ==
    /\ dominant = <<>>
    /\ c \in 1..subscribed
    /\ updateCallbacks' = Without(updateCallbacks, {c})
    /\ unsubscribed' = unsubscribed \cup {c}
    /\ UNCHANGED <<dominantVars, stream, source, analyser, isInitialized,
                   isProcessing, calls, liveStreams, frames, subscribed,
                   round, startedSince>>
    /\ UNCHANGED <<noteVars, identifyVars, detectVars, historyVars>>

\* The loop of detectDominantFrequency over the bins i..(last - 1), with
\* maxIndex and maxValue so far in found.
RECURSIVE MaxScan(_, _, _, _)
MaxScan(data, i, last, found) ==
    IF i >= last THEN found
    ELSE MaxScan(data, i + 1, last,
                 IF data[i + 1] > found.maxValue
                 THEN [maxIndex |-> i, maxValue |-> data[i + 1]]
                 ELSE found)

\* The same loop from bin i to the end, gone through 32 bins at a time,
\* which keeps the depth of the evaluation small.
RECURSIVE MaxScanFrom(_, _, _)
MaxScanFrom(data, i, found) ==
    IF i >= Len(data) THEN found
    ELSE LET next == MaxScan(data, i, Min(i + 32, Len(data)), found)
         IN  IF next = found
             THEN MaxScanFrom(data, i + 32, found)
             ELSE MaxScanFrom(data, i + 32, next)

\* floor(10^4 * index * rate / divisor), in two steps to stay below 2^31.
BinFrequency(index, rate, divisor) ==
    (((index * rate) \div divisor) * FreqUnit)
        + ((((index * rate) % divisor) * FreqUnit) \div divisor)

\* detectDominantFrequency()
DetectDominantFrequency(data, rate) ==
    IF Len(data) = 0 THEN Null
    ELSE LET found == MaxScanFrom(data, 0, [maxIndex |-> 0, maxValue |-> 0])
             \* this.audioContext?.sampleRate || 44100
             rateOrDefault == IF rate = 0 THEN 44100 ELSE rate
         IN  IF found.maxValue < 10 THEN Null
             ELSE BinFrequency(found.maxIndex, rateOrDefault,
                               analyserFftSize * 2)

DetectDominantFrequencyCall ==
    /\ dominant = <<>>
    /\ dominant' = <<DetectDominantFrequency(spectrum, contextRate)>>
    /\ UNCHANGED <<spectrum, contextRate, processorVars>>
    /\ UNCHANGED <<noteVars, identifyVars, detectVars, historyVars>>

\* The processor with its subscribers, overlapping initialize() calls and
\* one spectrum.
ProcessorInit == Idle

ProcessorNext ==
    \/ InitializeCall(MaxCalls)
    \/ \E c \in 1..MaxCalls : InitializeGranted(c)
    \/ \E c \in 1..MaxCalls : InitializeDenied(c)
    \/ \E c \in 1..MaxCalls : InitializeResumed(c)
    \/ Start(OneSpectrum)
    \/ Stop
    \/ AnimationFrame(OneSpectrum)
    \/ Subscribe
    \/ \E c \in 1..MaxSubscribers : Unsubscribe(c)

SpecProcessor == ProcessorInit /\ [][ProcessorNext]_vars

\* The processor with one initialize() call at a time, no subscriber and
\* every spectrum, and detectDominantFrequency called on it.
DominantInit == Idle

DominantNext ==
    \/ InitializeCall(1)
    \/ InitializeGranted(1)
    \/ InitializeDenied(1)
    \/ InitializeResumed(1)
    \/ Start(Spectra)
    \/ Stop
    \/ AnimationFrame(Spectra)
    \/ DetectDominantFrequencyCall

SpecDominant == DominantInit /\ [][DominantNext]_vars


(***************************************************************************)
(* Claims about detectDominantFrequency (SpecDominant).                    *)
(***************************************************************************)

\* The largest value of a spectrum that is not empty, and the first bin
\* that holds it.
LargestValue(data) ==
    CHOOSE v \in SeqRange(data) : \A w \in SeqRange(data) : w <= v

FirstBinOf(data, value) ==
    (CHOOSE k \in 1..Len(data) :
        data[k] = value /\ \A j \in 1..(k - 1) : data[j] # value) - 1

\* C23: detectDominantFrequency returns null when there is no data or the
\* largest bin value is below 10, and otherwise the frequency of the first
\* bin holding the largest value, maxIndex * sampleRate / fftSize, fftSize
\* being the FFT size of the analyser, twice the number of bins.
C23_DominantFrequency ==
    dominant # <<>> =>
        IF Len(spectrum) = 0 \/ LargestValue(spectrum) < 10
        THEN dominant[1] = Null
        ELSE dominant[1] =
                 BinFrequency(FirstBinOf(spectrum, LargestValue(spectrum)),
                              contextRate, 2 * Len(spectrum))

\* What the code returns where C23 expects a frequency: the frequency of
\* the first bin holding the largest value with twice the FFT size as the
\* divisor, and null in the two cases of C23.
DominantFrequencyHalved ==
    dominant # <<>> =>
        IF Len(spectrum) = 0 \/ LargestValue(spectrum) < 10
        THEN dominant[1] = Null
        ELSE dominant[1] =
                 BinFrequency(FirstBinOf(spectrum, LargestValue(spectrum)),
                              contextRate, 4 * Len(spectrum))


(***************************************************************************)
(* Claims about the processing loop, the streams and the subscribers       *)
(* (SpecProcessor).                                                        *)
(***************************************************************************)

\* C26: under every interleaving of initialize(), start(), stop() and
\* animation frames, at most one processAudio callback is pending.
C26_OneLoop == frames <= 1


\* C27: under every interleaving of overlapping initialize() calls and
\* stop() calls, every MediaStream obtained from getUserMedia whose tracks
\* have not been stopped is the processor's current stream.
C27_NoStreamLeft == \A s \in liveStreams : s = stream


\* C28: if the most recent initialize() resolved true and start() was
\* called after it, with no stop() since the initialize() resolved, the
\* processing loop is running: a frame callback is pending and finds
\* isProcessing set and an analyser.
C28_LoopRunning ==
    (/\ calls # <<>>
     /\ calls[Len(calls)].pc = "true"
     /\ ~calls[Len(calls)].stopped
     /\ startedSince) =>
        /\ frames > 0
        /\ isProcessing
        /\ analyser


\* C30: once the unsubscribe function of a callback has been called, the
\* callback is not invoked again, also when the call is made from inside
\* another callback during a notification round; and no callback is invoked
\* twice in a round.
C30_NoCallAfterUnsubscribe ==
    /\ \A k \in 1..Len(round) : ~round[k].unsubscribed
    /\ \A j, k \in 1..Len(round) :
           round[j].callback = round[k].callback => j = k

\* The same for the callbacks unsubscribed before the round began: these
\* are never invoked.
NoCallInLaterRounds ==
    [][\A k \in 1..Len(round') :
           round' # round => round'[k].callback \notin unsubscribed]_vars


(***************************************************************************)
(* AudioProvider: the chord history (src/client/src/contexts/              *)
(* AudioContext.tsx).                                                      *)
(***************************************************************************)

\* n.toString().padStart(2, '0'), ToString being n.toString()
PadStart2(n) == IF n < 10 THEN "0" \o ToString(n) ELSE ToString(n)

\* formatTime(ms / 1000): minutes and seconds, floored, as mm:ss.
FormatTime(ms) ==
    PadStart2((ms \div 1000) \div 60) \o ":" \o PadStart2((ms \div 1000) % 60)

\* The names detectChord comes back with: none, and two chords.
ChordNames == {"", "C", "Am"}

\* The time that passes between two looks at the clock, in ms: up to the
\* limit of 2000 ms, or just beyond it.
Delays == {2000, 2001}

\* The clock of a run stops here: eleven entries fit, each logged as soon
\* as the limit allows.
MaxTime == 22011

\* Time passes.
Tick ==
    /\ \E delay \in Delays :
          /\ now + delay <= MaxTime
          /\ now' = now + delay
    /\ UNCHANGED <<detectedChord, chordHistory, lastDetectedChord,
                   lastChordTime>>
    /\ UNCHANGED <<noteVars, identifyVars, detectVars, dominantVars,
                   processorVars>>

\* A condition that logs at 2000 ms already.
ShouldLogAtLimit(name, lastName, elapsed) ==
    /\ name # ""
    /\ name # lastName
    /\ elapsed >= 2000

\* chord.name && chord.name !== lastDetectedChord &&
\* (now - lastChordTime > 2000)
ShouldLog(name, lastName, elapsed) ==
    /\ name # ""
    /\ name # lastName
    /\ elapsed > 2000

\* The audio processing effect, run by React after a render in which
\* audioData or one of its other dependencies changed: isActive and the
\* length of audioData.frequencyData come from useAudioInput, name is
\* chord.name, what detectChord found in the data.
AudioEffect ==
    \E isActive \in BOOLEAN, hasData \in BOOLEAN, name \in ChordNames :
        /\ IF ~isActive \/ ~hasData
           THEN UNCHANGED <<detectedChord, chordHistory, lastDetectedChord,
                            lastChordTime>>
           ELSE /\ detectedChord' = name
                /\ IF ShouldLog(name, lastDetectedChord, now - lastChordTime)
                   THEN /\ lastDetectedChord' = name
                        /\ lastChordTime' = now
                        /\ chordHistory' =
                              LET logged ==
                                      <<[name |-> name,
                                         timestamp |-> FormatTime(now)]>>
                                          \o chordHistory
                              IN  SubSeq(logged, 1, Min(10, Len(logged)))
                   ELSE UNCHANGED <<chordHistory, lastDetectedChord,
                                    lastChordTime>>
        /\ UNCHANGED now
        /\ UNCHANGED <<noteVars, identifyVars, detectVars, dominantVars,
                       processorVars>>

\* clearChordHistory()
ClearChordHistory ==
    /\ chordHistory' = <<>>
    /\ UNCHANGED <<now, detectedChord, lastDetectedChord, lastChordTime>>
    /\ UNCHANGED <<noteVars, identifyVars, detectVars, dominantVars,
                   processorVars>>

HistoryInit == Idle

HistoryNext == Tick \/ AudioEffect \/ ClearChordHistory

SpecHistory == HistoryInit /\ [][HistoryNext]_vars


(***************************************************************************)
(* Claims about the chord history (SpecHistory).                           *)
(***************************************************************************)

\* C29: an entry is prepended to the chord history only when the detected
\* chord name is not empty, differs from the name logged last and more than
\* 2000 ms have passed since the previous log; consecutive log times are
\* more than 2000 ms apart, no two adjacent entries carry the same name,
\* and the history holds at most 10 entries, the newest first.
C29_HistoryLogging ==
    /\ [](/\ Len(chordHistory) <= 10
          /\ \A k \in 1..(Len(chordHistory) - 1) :
                 chordHistory[k].name # chordHistory[k + 1].name)
    /\ [][/\ lastChordTime' # lastChordTime =>
                 lastChordTime' - lastChordTime > 2000
          /\ (chordHistory' # chordHistory /\ chordHistory' # <<>>) =>
                 /\ detectedChord' # ""
                 /\ detectedChord' # lastDetectedChord
                 /\ now - lastChordTime > 2000
                 /\ lastChordTime' = now
                 /\ Head(chordHistory') =
                        [name |-> detectedChord',
                         timestamp |-> FormatTime(now)]
                 /\ \A k \in 2..Len(chordHistory') :
                        chordHistory'[k] = chordHistory[k - 1]]_vars

\* Eleven chords have been logged, each 2001 ms after the one before: the
\* history holds the last ten, the newest first.
C29_Witness ==
    /\ Len(chordHistory) = 10
    /\ chordHistory[1].timestamp = "00:22"
    /\ chordHistory[10].timestamp = "00:04"
    /\ lastChordTime = 22011

====
